---- MODULE Spec2Model ----
(***************************************************************************)
(* Extension resolution engine of rc (rodrigos-cli): discovery of scripts  *)
(* and sidecar metadata over an ordered list of roots, priority merge with *)
(* conflict records, alias entries, and execution of a resolved entry as a *)
(* child process.                                                           *)
(*                                                                         *)
(* Strings are sequences of atoms.  An atom is one character ("x", " ")    *)
(* or one chunk that the program only ever handles as a whole (".sh",      *)
(* "RC_", "--verbose").  Inside a file name every atom that starts with a  *)
(* dot runs to the next dot or to the end of the name, so the last atom of *)
(* a name is its extension exactly when it is a dotted atom.  A path is a  *)
(* sequence of file names (its components).                                *)
(***************************************************************************)
EXTENDS Integers, Sequences, FiniteSets, TLC

VARIABLES
    fs,                    \* the filesystem: a tree of directory and file nodes
    extensionsDirs,        \* ConfigManager.getExtensionsDirs(): ordered root paths
    extensionsCache,       \* ExtensionLoader.extensionsCache
    extensionSourcesCache, \* ExtensionLoader.extensionSourcesCache
    conflictsCache,        \* ExtensionLoader.conflictsCache
    cacheValid,            \* ExtensionLoader.cacheValid
    binaryName,            \* basename(process.argv[1]): the name rc was started under
    typed,                 \* what the user typed around the command: [before, rest]
    argv,                  \* process.argv.slice(2)
    pc,                    \* where the rc process is: boot, ready, awaiting, exited
    entry,                 \* <<extension>> handed to executeExtension, or <<>>
    context,               \* <<ExecutionContext>> built by executeExtension, or <<>>
    spawned,               \* the spawn(runner, args, {env}) calls made, in order
    ioLog,                 \* executeExtension's calls on the child, in order: spawn,
                           \* stdin write, stdin end, listen (close and error handlers)
    child,                 \* the child process
    promise,               \* the promise executeExtension returned
    exitStatus,            \* <<status>> the rc process exited with, or <<>>
    written,               \* the files rc alias has created, in order: wrappers, configs, symlinks
    dispatch,              \* <<what a run of a wrapper script came to>>, or <<>>
    report,                \* <<what rc doctor printed about conflicts>>, or <<>>
    config,                \* <<ConfigManager.config>>, or <<>> before the constructor ran
    configFile,            \* the file at ConfigManager.configPath
    loads                  \* the loadExtensions() calls of an event loop: those suspended at
                           \* an await and those that returned, with the time of each call

loaderVars == <<extensionsCache, extensionSourcesCache, conflictsCache, cacheValid>>
envVars == <<fs, extensionsDirs>>
configVars == <<config, configFile>>
shellVars == <<written, dispatch, report, configVars, loads>>
procVars == <<binaryName, typed, argv, pc, entry, context, spawned, ioLog, child,
              promise, exitStatus>>

----------------------------------------------------------------------------
(* Bounds of the model *)

\* length of the configured list of roots
NRoots == 2
\* largest number of entries (a script with its sidecar, or a subdirectory) in a root listing
MaxItems == 2

----------------------------------------------------------------------------
(* Strings *)

SP == " "
DotAtoms == {".js", ".ts", ".cjs", ".sh", ".py", ".rb", ".php", ".yaml", ".json"}

Last(s) == s[Len(s)]
Front(s) == SubSeq(s, 1, Len(s) - 1)

\* String.prototype.split(" "): the segments between single spaces
RECURSIVE SplitAt(_, _, _)
SplitAt(s, sep, cur) ==
    IF s = <<>> THEN <<cur>>
    ELSE IF Head(s) = sep THEN <<cur>> \o SplitAt(Tail(s), sep, <<>>)
    ELSE SplitAt(Tail(s), sep, Append(cur, Head(s)))

Split(s) == SplitAt(s, SP, <<>>)

\* Array.prototype.join(" ")
RECURSIVE Join(_)
Join(parts) ==
    IF parts = <<>> THEN <<>>
    ELSE IF Len(parts) = 1 THEN parts[1]
    ELSE parts[1] \o <<SP>> \o Join(Tail(parts))

\* path.extname of a file name (or of the last component of a path)
extname(name) ==
    IF Len(name) > 1 /\ Last(name) \in DotAtoms THEN <<Last(name)>> ELSE <<>>

\* path.basename(path)
basename(path) == Last(path)

\* path.join(dir, item)
join(dir, item) == Append(dir, item)

\* String.prototype.replace(pattern, replacement) on one component: first occurrence
RECURSIVE ReplaceFirstAtom(_, _, _)
ReplaceFirstAtom(name, pat, rep) ==
    IF name = <<>> THEN <<>>
    ELSE IF <<Head(name)>> = pat THEN rep \o Tail(name)
    ELSE <<Head(name)>> \o ReplaceFirstAtom(Tail(name), pat, rep)

HasAtom(name, pat) == \E i \in 1..Len(name) : <<name[i]>> = pat

\* path.replace(ext, rep) on the whole path string: the first occurrence of ext,
\* in whichever component it lies
RECURSIVE ReplaceFirst(_, _, _)
ReplaceFirst(path, pat, rep) ==
    IF path = <<>> THEN <<>>
    ELSE IF HasAtom(Head(path), pat)
         THEN <<ReplaceFirstAtom(Head(path), pat, rep)>> \o Tail(path)
    ELSE <<Head(path)>> \o ReplaceFirst(Tail(path), pat, rep)

----------------------------------------------------------------------------
(* Filesystem *)

\* ExtensionConfig (src/types): absent fields are the empty sequence
NoDoc ==
    [description |-> <<>>, runner |-> <<>>, passContext |-> <<>>, options |-> <<>>,
     aliases |-> <<>>]

\* A node of the tree.  parses tells which parsers accept a file's content:
\* "json" (JSON.parse and yaml.load both do), "yaml" (yaml.load only) or "none".
Script(name) == [kind |-> "file", name |-> name, items |-> <<>>, parses |-> "none", doc |-> NoDoc]
Sidecar(name, parses, doc) == [kind |-> "file", name |-> name, items |-> <<>>, parses |-> parses, doc |-> doc]
Dir(name, items) == [kind |-> "dir", name |-> name, items |-> items, parses |-> "none", doc |-> NoDoc]
NoNode == [kind |-> "none", name |-> <<>>, items |-> <<>>, parses |-> "none", doc |-> NoDoc]
\* a symbolic link whose target is gone: readdirSync lists it, statSync throws on it
Dangling(name) == [kind |-> "dangling", name |-> name, items |-> <<>>, parses |-> "none", doc |-> NoDoc]

RECURSIVE Lookup(_, _)
Lookup(node, path) ==
    IF path = <<>> THEN node
    ELSE LET hits == {i \in 1..Len(node.items) : node.items[i].name = Head(path)}
         IN  IF node.kind # "dir" \/ hits = {} THEN NoNode
             ELSE Lookup(node.items[CHOOSE i \in hits : TRUE], Tail(path))

\* fs.existsSync, fs.statSync(p).isDirectory(), fs.readdirSync
existsSync(path) == Lookup(fs, path).kind \notin {"none", "dangling"}
isDirectory(path) == Lookup(fs, path).kind = "dir"
readdirSync(path) == Lookup(fs, path).items

\* every directory below dir, dir itself left out
RECURSIVE directoriesBelow(_)
directoriesBelow(dir) ==
    LET children == {join(dir, readdirSync(dir)[i].name) : i \in 1..Len(readdirSync(dir))}
        subdirs == {c \in children : isDirectory(c)}
    IN  subdirs \cup UNION {directoriesBelow(c) : c \in subdirs}

\* items j and j + 1 of a listing the other way round
Swap(items, j) ==
    [i \in 1..Len(items) |->
        IF i = j THEN items[j + 1] ELSE IF i = j + 1 THEN items[j] ELSE items[i]]

\* the tree with two neighbours swapped in the listing of the directory at path
RECURSIVE relistAt(_, _, _)
relistAt(node, path, j) ==
    IF path = <<>> THEN [node EXCEPT !.items = Swap(node.items, j)]
    ELSE [node EXCEPT !.items =
            [i \in 1..Len(node.items) |->
                IF node.items[i].name = Head(path)
                THEN relistAt(node.items[i], Tail(path), j)
                ELSE node.items[i]]]

----------------------------------------------------------------------------
(* ExtensionLoader: discovery *)

executableExtensions == {".js", ".ts", ".cjs", ".sh", ".py", ".rb", ".php"}

isExecutableFile(filename) ==
    extname(filename) # <<>> /\ extname(filename)[1] \in executableExtensions

\* basename(filename, extname(filename))
getCommandName(filename) ==
    IF extname(filename) = <<>> THEN filename ELSE Front(filename)

getScriptType(scriptPath) ==
    LET ext == extname(basename(scriptPath))
    IN  IF ext = <<".js">> THEN "js"
        ELSE IF ext = <<".ts">> THEN "ts"
        ELSE IF ext = <<".cjs">> THEN "js"
        ELSE IF ext = <<".sh">> THEN "sh"
        ELSE IF ext = <<".py">> THEN "py"
        ELSE IF ext = <<".rb">> THEN "rb"
        ELSE IF ext = <<".php">> THEN "php"
        ELSE "js"

\* the two candidate locations, YAML first
sidecarCandidates(path) ==
    IF isDirectory(path)
    THEN << join(path, basename(path) \o <<".yaml">>),
            join(path, basename(path) \o <<".json">>) >>
    ELSE << ReplaceFirst(path, extname(basename(path)), <<".yaml">>),
            ReplaceFirst(path, extname(basename(path)), <<".json">>) >>

\* readFileSync + yaml.load / JSON.parse of one candidate: <<doc>>, or <<>> when
\* the file is missing or the parser chosen by the path's ending throws
parseCandidate(configPath) ==
    LET node == Lookup(fs, configPath)
        asYaml == Last(basename(configPath)) = ".yaml"
    IN  IF node.kind # "file" THEN <<>>
        ELSE IF asYaml /\ node.parses \in {"yaml", "json"} THEN <<node.doc>>
        ELSE IF ~asYaml /\ node.parses = "json" THEN <<node.doc>>
        ELSE <<>>

\* <<config>> or <<>> (undefined)
loadSidecarConfig(path) ==
    LET cands == sidecarCandidates(path)
    IN  IF parseCandidate(cands[1]) # <<>> THEN parseCandidate(cands[1])
        ELSE parseCandidate(cands[2])

createExtension(command, scriptPath) ==
    [command |-> command,
     scriptPath |-> scriptPath,
     config |-> loadSidecarConfig(scriptPath),
     scriptType |-> getScriptType(scriptPath)]

\* extension.config?.aliases
aliasesOf(extension) ==
    IF extension.config = <<>> THEN <<>> ELSE extension.config[1].aliases

\* baseCommand ? `${baseCommand} ${item}` : item
subCommandOf(baseCommand, item) ==
    IF baseCommand # <<>> THEN baseCommand \o <<SP>> \o item ELSE item

RECURSIVE aliasExtensions(_, _, _)
aliasExtensions(aliases, baseCommand, itemPath) ==
    IF aliases = <<>> THEN <<>>
    ELSE <<createExtension(subCommandOf(baseCommand, Head(aliases)), itemPath)>>
         \o aliasExtensions(Tail(aliases), baseCommand, itemPath)

RECURSIVE discoverExtensions(_, _)
RECURSIVE discoverItems(_, _, _)

\* the body of the loop over readdirSync(dir), for the items still to visit; when
\* statSync throws the loop is left for the catch block and what was found stays
discoverItems(dir, items, baseCommand) ==
    IF items = <<>> THEN <<>>
    ELSE IF Lookup(fs, join(dir, Head(items).name)).kind = "dangling" THEN <<>>
    ELSE LET item == Head(items).name
             itemPath == join(dir, item)
             found ==
                 IF isDirectory(itemPath)
                 THEN LET dirConfig == loadSidecarConfig(itemPath)
                          subCommand == subCommandOf(baseCommand, item)
                          virtualExtension ==
                              [command |-> subCommand,
                               scriptPath |-> itemPath,
                               config |-> dirConfig,
                               scriptType |-> "js"]
                      IN  (IF dirConfig # <<>> THEN <<virtualExtension>> ELSE <<>>)
                          \o discoverExtensions(itemPath, subCommand)
                 ELSE IF isExecutableFile(item)
                 THEN LET command == subCommandOf(baseCommand, getCommandName(item))
                          extension == createExtension(command, itemPath)
                      IN  <<extension>>
                          \o aliasExtensions(aliasesOf(extension), baseCommand, itemPath)
                 ELSE <<>>
         IN  found \o discoverItems(dir, Tail(items), baseCommand)

discoverExtensions(dir, baseCommand) ==
    IF ~existsSync(dir) THEN <<>>
    ELSE discoverItems(dir, readdirSync(dir), baseCommand)

----------------------------------------------------------------------------
(* ExtensionLoader: merge with conflict detection *)

\* the commands of the sources in order of first appearance (Map insertion order)
RECURSIVE commandOrder(_, _)
commandOrder(sources, seen) ==
    IF sources = <<>> THEN <<>>
    ELSE LET c == Head(sources).extension.command
         IN  IF c \in seen THEN commandOrder(Tail(sources), seen)
             ELSE <<c>> \o commandOrder(Tail(sources), seen \cup {c})

\* commandMap.get(command): the sources of one command, in push order
commandGroup(sources, command) ==
    SelectSeq(sources, LAMBDA s : s.extension.command = command)

\* the sort with the comparison reversed: (a, b) => b.priority - a.priority
RECURSIVE sortByPriorityReversed(_, _, _)
sortByPriorityReversed(group, lo, hi) ==
    IF lo > hi THEN <<>>
    ELSE SelectSeq(group, LAMBDA s : s.priority = hi) \o sortByPriorityReversed(group, lo, hi - 1)

RECURSIVE Reverse(_)
Reverse(seq) == IF seq = <<>> THEN <<>> ELSE Append(Reverse(Tail(seq)), Head(seq))

\* a sort that is not stable: the sources of one priority come out last first
RECURSIVE sortByPriorityLastFirst(_, _, _)
sortByPriorityLastFirst(group, lo, hi) ==
    IF lo > hi THEN <<>>
    ELSE Reverse(SelectSeq(group, LAMBDA s : s.priority = lo))
         \o sortByPriorityLastFirst(group, lo + 1, hi)

\* commandSources.sort((a, b) => a.priority - b.priority): a stable sort, so the
\* sources of priority p keep their order, for p ascending from lo
RECURSIVE sortByPriority(_, _, _)
sortByPriority(group, lo, hi) ==
    IF lo > hi THEN <<>>
    ELSE SelectSeq(group, LAMBDA s : s.priority = lo) \o sortByPriority(group, lo + 1, hi)

\* { ...source.extension, sourceDir: source.sourceDir }
conflicting(source) ==
    [command |-> source.extension.command,
     scriptPath |-> source.extension.scriptPath,
     config |-> source.extension.config,
     scriptType |-> source.extension.scriptType,
     sourceDir |-> source.sourceDir]

\* the losers cut to the first one: slice(1, 2) for slice(1)
mapConflictingFirstOnly(rest) ==
    IF rest = <<>> THEN <<>> ELSE <<conflicting(Head(rest))>>

RECURSIVE mapConflicting(_)
mapConflicting(rest) ==
    IF rest = <<>> THEN <<>> ELSE <<conflicting(Head(rest))>> \o mapConflicting(Tail(rest))

\* the loop over commandMap.entries()
RECURSIVE mergeGroups(_, _)
mergeGroups(sources, commands) ==
    IF commands = <<>> THEN [mergedExtensions |-> <<>>, conflicts |-> <<>>]
    ELSE LET command == Head(commands)
             commandSources ==
                 sortByPriority(commandGroup(sources, command), 0, Len(extensionsDirs))
             primarySource == commandSources[1]
             rest == mergeGroups(sources, Tail(commands))
         IN  [mergedExtensions |-> <<primarySource.extension>> \o rest.mergedExtensions,
              conflicts |->
                  (IF Len(commandSources) > 1
                   THEN <<[command |-> command,
                           primaryExtension |-> primarySource.extension,
                           conflictingExtensions |-> mapConflicting(Tail(commandSources))]>>
                   ELSE <<>>) \o rest.conflicts]

mergeExtensionsWithConflicts(sources) ==
    mergeGroups(sources, commandOrder(sources, {}))

\* allExtensionSources.push({extension, sourceDir: dir, priority: i}) for one root
RECURSIVE withSource(_, _, _)
withSource(extensions, dir, i) ==
    IF extensions = <<>> THEN <<>>
    ELSE <<[extension |-> Head(extensions), sourceDir |-> dir, priority |-> i]>>
         \o withSource(Tail(extensions), dir, i)

\* the loop over extensionsDirs, from (0-based) index i on; an empty dir string is skipped
RECURSIVE scanRoots(_)
scanRoots(i) ==
    IF i >= Len(extensionsDirs) THEN <<>>
    ELSE LET dir == extensionsDirs[i + 1]
         IN  (IF dir = <<>> THEN <<>>
              ELSE withSource(discoverExtensions(dir, <<>>), dir, i))
             \o scanRoots(i + 1)

allExtensionSources == scanRoots(0)

----------------------------------------------------------------------------
(* ExtensionLoader: the cache *)

\* loadExtensions(): the cached table, or a fresh scan and merge that fills the caches
loadExtensions ==
    \/ /\ cacheValid
       /\ UNCHANGED loaderVars
    \/ /\ ~cacheValid
       /\ LET sources == allExtensionSources
              merged == mergeExtensionsWithConflicts(sources)
          IN  /\ extensionsCache' = merged.mergedExtensions
              /\ extensionSourcesCache' = sources
              /\ conflictsCache' = merged.conflicts
       /\ cacheValid' = TRUE

invalidateCache ==
    /\ cacheValid' = FALSE
    /\ extensionsCache' = <<>>
    /\ extensionSourcesCache' = <<>>
    /\ conflictsCache' = <<>>

LoadExtensions == loadExtensions /\ UNCHANGED <<envVars, shellVars, procVars>>

InvalidateCache == invalidateCache /\ UNCHANGED <<envVars, shellVars, procVars>>

----------------------------------------------------------------------------
(* ExtensionLoader: execution *)

\* String.prototype.toUpperCase
upperAtom(a) ==
    CASE a = "e" -> "E"
      [] a = "command" -> "COMMAND"
      [] OTHER -> a

toUpperCase(str) == [i \in 1..Len(str) |-> upperAtom(str[i])]

\* a path as the string the program holds: /r0/n/y.py
RECURSIVE pathStr(_)
pathStr(path) ==
    IF path = <<>> THEN <<>> ELSE <<"/">> \o Head(path) \o pathStr(Tail(path))

\* env[key] = value
Put(env, key, value) ==
    [k \in DOMAIN env \cup {key} |-> IF k = key THEN value ELSE env[k]]

\* { ...a, ...b }
Spread(a, b) ==
    [k \in DOMAIN a \cup DOMAIN b |-> IF k \in DOMAIN b THEN b[k] ELSE a[k]]

RC_COMMAND == <<"RC_", "COMMAND">>
RC_SCRIPT_PATH == <<"RC_", "SCRIPT_PATH">>
RC_SCRIPT_TYPE == <<"RC_", "SCRIPT_TYPE">>

\* An options object is the sequence of its entries, [key, value], in
\* Object.entries order; value is <<>> (undefined) or <<string>>.

\* the loop over Object.entries(options), with the value written by a broken guard
\* that also skips the empty string: if (value)
RECURSIVE addOptionsNonEmpty(_, _)
addOptionsNonEmpty(env, options) ==
    IF options = <<>> THEN env
    ELSE LET o == Head(options)
         IN  addOptionsNonEmpty(
                 IF o.value # <<>> /\ o.value[1] # <<>>
                 THEN Put(env, <<"RC_">> \o toUpperCase(o.key), o.value[1])
                 ELSE env,
                 Tail(options))

\* the loop over Object.entries(options): value !== undefined, String(value)
RECURSIVE addOptions(_, _)
addOptions(env, options) ==
    IF options = <<>> THEN env
    ELSE LET o == Head(options)
         IN  addOptions(
                 IF o.value # <<>>
                 THEN Put(env, <<"RC_">> \o toUpperCase(o.key), o.value[1])
                 ELSE env,
                 Tail(options))

buildEnvironment(extension, options) ==
    addOptions(
        Put(Put(Put(<<>>, RC_COMMAND, extension.command),
                RC_SCRIPT_PATH, pathStr(extension.scriptPath)),
            RC_SCRIPT_TYPE, <<extension.scriptType>>),
        options)

\* extension.config?.runner, else the runner of the script type
selectRunner(extension) ==
    LET runner == IF extension.config = <<>> THEN <<>> ELSE extension.config[1].runner
        type == extension.scriptType
    IN  IF runner # <<>> THEN runner
        ELSE IF type \in {"js", "ts"} THEN <<"node">>
        ELSE IF type = "sh" THEN <<"bash">>
        ELSE IF type = "py" THEN <<"python3">>
        ELSE IF type = "rb" THEN <<"ruby">>
        ELSE IF type = "php" THEN <<"php">>
        ELSE <<"node">>

VERBOSE == <<"--verbose">>
DEBUG == <<"--debug">>

\* context.args.filter((arg, index) => ...), from (0-based) index on
RECURSIVE filterArgs(_, _, _)
filterArgs(args, index, nParts) ==
    IF args = <<>> THEN <<>>
    ELSE (IF index < nParts \/ Head(args) = VERBOSE \/ Head(args) = DEBUG
          THEN <<>> ELSE <<Head(args)>>)
         \o filterArgs(Tail(args), index + 1, nParts)

\* every runner gets the script path first
buildExecutionArgs(extension, runner, ctx) ==
    <<pathStr(extension.scriptPath)>>
    \o filterArgs(ctx.args, 0, Len(Split(extension.command)))

\* JSON.stringify(context): an options entry whose value is undefined is left out
stringify(ctx) ==
    [command |-> ctx.command,
     options |-> SelectSeq(ctx.options, LAMBDA o : o.value # <<>>),
     args |-> ctx.args,
     env |-> ctx.env]

\* extension.config?.passContext
passContextOf(extension) ==
    extension.config # <<>> /\ extension.config[1].passContext = <<TRUE>>

Op(op, data) == [op |-> op, data |-> data]

\* the stream closed first and written afterwards
stdinCallsEndFirst(extension, ctx) ==
    IF passContextOf(extension)
    THEN <<Op("end", <<>>), Op("write", <<stringify(ctx)>>)>>
    ELSE <<>>

\* child.stdin.write(JSON.stringify(context)); child.stdin.end() under passContext
stdinCalls(extension, ctx) ==
    IF passContextOf(extension)
    THEN <<Op("write", <<stringify(ctx)>>), Op("end", <<>>)>>
    ELSE <<>>

\* process.env of the rc process
processEnv == Put(<<>>, <<"PATH">>, <<"/", "bin">>)

\* the ExecutionContext: command, options, process.argv.slice(2), the overlay
contextOf(extension, options, args) ==
    [command |-> extension.command,
     options |-> options,
     args |-> args,
     env |-> buildEnvironment(extension, options)]

\* spawn(runner, args, { stdio: ["pipe", "inherit", "inherit"], env })
spawnCall(extension, ctx) ==
    [runner |-> selectRunner(extension),
     args |-> buildExecutionArgs(extension, selectRunner(extension), ctx),
     env |-> Spread(processEnv, ctx.env)]

\* executeExtension up to the point where the promise is returned: the context, the
\* spawn, the stdin calls and the two handlers; spawnOk and readsStdin are the
\* child's doing
executeExtension(extension, options, args, spawnOk, readsStdin) ==
    LET ctx == contextOf(extension, options, args)
    IN  /\ entry' = <<extension>>
        /\ context' = <<ctx>>
        /\ spawned' = Append(spawned, spawnCall(extension, ctx))
        /\ ioLog' = ioLog \o <<Op("spawn", <<>>)>> \o stdinCalls(extension, ctx)
                          \o <<Op("listen", <<>>)>>
        /\ child' = [state |-> IF spawnOk THEN "running" ELSE "failed",
                     readsStdin |-> readsStdin,
                     code |-> <<>>]
        /\ promise' = "pending"

----------------------------------------------------------------------------
(* The filesystems and root lists the loader is run on *)

\* the i-th (0-based) configured root is the directory /r<i>
RootPath(i) == << <<"r", ToString(i)>> >>

GroupDoc == [NoDoc EXCEPT !.description = <<"g">>]
\* one alias that is also the name of a real script, one that holds a space
AliasedDoc == [NoDoc EXCEPT !.aliases = << <<"x">>, <<"a", SP, "b">> >>]

\* What a listing is made of: a script, a script with a sidecar that declares
\* aliases, a subdirectory with its own metadata and an aliased script, a plain
\* subdirectory with a script.  The two subdirectories share the name n.
ScriptX == <<Script(<<"x", ".sh">>)>>
ScriptY == <<Script(<<"y", ".py">>), Sidecar(<<"y", ".yaml">>, "yaml", AliasedDoc)>>
Bundles ==
    { [key |-> "x", nodes |-> ScriptX],
      [key |-> "y", nodes |-> ScriptY],
      [key |-> "n", nodes |-> <<Dir(<<"n">>, <<Sidecar(<<"n", ".yaml">>, "yaml", GroupDoc)>> \o ScriptY)>>],
      [key |-> "n", nodes |-> <<Dir(<<"n">>, ScriptX)>>] }

RECURSIVE BundleSeqs(_)
BundleSeqs(n) ==
    IF n = 0 THEN {<<>>}
    ELSE LET shorter == BundleSeqs(n - 1)
         IN  shorter \cup
             UNION { { Append(l, b) :
                         b \in {c \in Bundles : \A j \in 1..(n - 1) : l[j].key # c.key} } :
                     l \in {x \in shorter : Len(x) = n - 1} }

RECURSIVE Flatten(_)
Flatten(bundles) ==
    IF bundles = <<>> THEN <<>> ELSE Head(bundles).nodes \o Flatten(Tail(bundles))

\* every order of every choice of at most MaxItems bundles with distinct names
Listings == { Flatten(l) : l \in BundleSeqs(MaxItems) }

\* a configured root: listed and present with some listing, listed but missing on
\* disk, or an empty string in the configured list
RootChoices ==
    { [conf |-> "dir", exists |-> TRUE, items |-> l] : l \in Listings }
    \cup { [conf |-> "dir", exists |-> FALSE, items |-> <<>>],
           [conf |-> "blank", exists |-> FALSE, items |-> <<>>] }

RECURSIVE RootNodes(_, _)
RootNodes(choice, i) ==
    IF i >= NRoots THEN <<>>
    ELSE (IF choice[i].exists THEN <<Dir(RootPath(i)[1], choice[i].items)>> ELSE <<>>)
         \o RootNodes(choice, i + 1)

FsOf(choice) == Dir(<<>>, RootNodes(choice, 0))
DirsOf(choice) ==
    [k \in 1..NRoots |-> IF choice[k - 1].conf = "blank" THEN <<>> ELSE RootPath(k - 1)]

----------------------------------------------------------------------------
(* Specification of the loader *)

vars == <<fs, extensionsDirs, extensionsCache, extensionSourcesCache, conflictsCache, cacheValid,
          binaryName, typed, argv, pc, entry, context, spawned, ioLog, child, promise,
          exitStatus, written, dispatch, report, config, configFile, loads>>

NoChild == [state |-> "none", readsStdin |-> FALSE, code |-> <<>>]
NoneTyped == [before |-> <<>>, rest |-> <<>>]

\* a process in which nothing has been dispatched
InitProcess ==
    /\ typed = NoneTyped
    /\ argv = <<>>
    /\ pc = "boot"
    /\ entry = <<>>
    /\ context = <<>>
    /\ spawned = <<>>
    /\ ioLog = <<>>
    /\ child = NoChild
    /\ promise = "none"
    /\ exitStatus = <<>>

\* no file at configPath
NoFile == [exists |-> FALSE, content |-> <<>>]

\* no loadExtensions() call made, no invalidateCache() call made, the caches from no scan
NoLoads == [calls |-> <<>>, clock |-> 0, cacheScan |-> 0, invalidated |-> {}]

\* nothing created by rc alias, no wrapper run, no ConfigManager
InitShell ==
    /\ written = <<>>
    /\ report = <<>>
    /\ config = <<>>
    /\ configFile = NoFile
    /\ dispatch = <<>>
    /\ loads = NoLoads

InitLoader ==
    /\ extensionsCache = <<>>
    /\ extensionSourcesCache = <<>>
    /\ conflictsCache = <<>>
    /\ cacheValid = FALSE

Init ==
    /\ \E choice \in [0..(NRoots - 1) -> RootChoices] :
          /\ fs = FsOf(choice)
          /\ extensionsDirs = DirsOf(choice)
    /\ InitLoader
    /\ InitShell
    /\ binaryName = <<"rc">>
    /\ InitProcess

\* The operating system lists the children of a directory in another order; what
\* the directory holds is unchanged.  readdirSync promises no order.
Relist ==
    /\ \E k \in 1..Len(extensionsDirs) :
          /\ extensionsDirs[k] # <<>>
          /\ existsSync(extensionsDirs[k])
          /\ \E dir \in {extensionsDirs[k]} \cup directoriesBelow(extensionsDirs[k]) :
                \E j \in 1..(Len(readdirSync(dir)) - 1) :
                    fs' = relistAt(fs, dir, j)
    /\ UNCHANGED <<extensionsDirs, loaderVars, procVars, shellVars>>

Next ==
    \/ LoadExtensions
    \/ InvalidateCache

Spec == Init /\ [][Next]_vars

\* the loader on a filesystem whose directories may be listed in another order
\* from one call to the next
NextRelist ==
    \/ LoadExtensions
    \/ InvalidateCache
    \/ Relist

SpecRelist == Init /\ [][NextRelist]_vars

----------------------------------------------------------------------------
(* Properties of the loader *)

Range(seq) == {seq[i] : i \in 1..Len(seq)}
Count(seq, Test(_)) == Cardinality({i \in 1..Len(seq) : Test(seq[i])})
IsPrefix(p, q) == Len(p) <= Len(q) /\ SubSeq(q, 1, Len(p)) = p

rawCommands == {s.extension.command : s \in Range(extensionSourcesCache)}
rawOf(c) == {s \in Range(extensionSourcesCache) : s.extension.command = c}
entriesOf(c) == {e \in Range(extensionsCache) : e.command = c}
conflictsOf(c) == {k \in Range(conflictsCache) : k.command = c}
minPriority(c) == CHOOSE p \in {s.priority : s \in rawOf(c)} : \A s \in rawOf(c) : p <= s.priority
crossRoot(c) == Cardinality({s.priority : s \in rawOf(c)}) >= 2

\* C1: priority determinism.  After loadExtensions, whatever order the roots list
\* their children in, a command claimed from two or more roots resolves to a source
\* of the root with the smallest index, and one conflict record for the command
\* holds that winner and names every source from the other roots, with its root,
\* as a loser.
C1_PriorityDeterminism ==
    cacheValid =>
        \A c \in rawCommands :
            crossRoot(c) =>
                /\ \A e \in entriesOf(c) :
                      /\ \E s \in rawOf(c) : s.priority = minPriority(c) /\ s.extension = e
                      /\ IsPrefix(extensionsDirs[minPriority(c) + 1], e.scriptPath)
                /\ entriesOf(c) # {}
                /\ \E k \in conflictsOf(c) :
                      /\ k.primaryExtension \in entriesOf(c)
                      /\ \A s \in rawOf(c) :
                            s.priority # minPriority(c) =>
                                conflicting(s) \in Range(k.conflictingExtensions)

\* a command claimed from both roots, and also twice within the winning root
C1_Witness ==
    /\ cacheValid
    /\ \E c \in rawCommands :
          /\ crossRoot(c)
          /\ Cardinality({s \in rawOf(c) : s.priority = minPriority(c)}) >= 2
          /\ \E k \in conflictsOf(c) : Len(k.conflictingExtensions) >= 2

\* without the source directory
asExtension(l) ==
    [command |-> l.command, scriptPath |-> l.scriptPath,
     config |-> l.config, scriptType |-> l.scriptType]

\* C2: no silent loss.  After loadExtensions every command of the raw scan results
\* has exactly one table entry; it has one conflict record when it has more than
\* one raw source and none otherwise; and its raw sources are accounted for exactly
\* once each, as the table entry or as a loser of that record.  Nothing else is in
\* the table or in the conflicts.
C2_NoSilentLoss ==
    cacheValid =>
        /\ \A e \in Range(extensionsCache) : e.command \in rawCommands
        /\ \A k \in Range(conflictsCache) : k.command \in rawCommands
        /\ \A c \in rawCommands :
              LET raw == SelectSeq(extensionSourcesCache, LAMBDA s : s.extension.command = c)
                  records == SelectSeq(conflictsCache, LAMBDA k : k.command = c)
                  losers == IF records = <<>> THEN <<>> ELSE records[1].conflictingExtensions
                  winner == CHOOSE e \in entriesOf(c) : TRUE
              IN  /\ Count(extensionsCache, LAMBDA e : e.command = c) = 1
                  /\ Len(records) = (IF Len(raw) > 1 THEN 1 ELSE 0)
                  /\ Len(raw) = Len(losers) + 1
                  /\ \A x \in {s.extension : s \in Range(raw)} :
                        Count(raw, LAMBDA s : s.extension = x)
                            = Count(losers, LAMBDA l : asExtension(l) = x)
                              + (IF winner = x THEN 1 ELSE 0)
                  /\ \A l \in Range(losers) :
                        Count(losers, LAMBDA m : m = l)
                            <= Count(raw, LAMBDA s : conflicting(s) = l)
                  /\ records # <<>> => records[1].primaryExtension = winner

\* a command with a single source beside a command with three
C2_Witness ==
    /\ cacheValid
    /\ \E c \in rawCommands : Cardinality(rawOf(c)) = 1 /\ conflictsOf(c) = {}
    /\ \E c \in rawCommands :
          Count(extensionSourcesCache, LAMBDA s : s.extension.command = c) >= 3

\* the command a script file gets from its place under its root
ownCommand(s) ==
    Join(SubSeq(s.extension.scriptPath, Len(s.sourceDir) + 1, Len(s.extension.scriptPath) - 1)
         \o <<getCommandName(basename(s.extension.scriptPath))>>)

isOriginalScript(s) ==
    /\ ~isDirectory(s.extension.scriptPath)
    /\ s.extension.command = ownCommand(s)

\* C5: for every discovered script with command path p whose sidecar declares
\* aliases, and every alias a, the scan holds an entry from the same root whose
\* command path is p with only its last segment replaced by a (same length, same
\* parent segments) and whose script path, script type and metadata are those of
\* the script's own entry.
C5_AliasIsSibling ==
    cacheValid =>
        \A s \in Range(extensionSourcesCache) :
            isOriginalScript(s) =>
                \A a \in Range(aliasesOf(s.extension)) :
                    \E t \in Range(extensionSourcesCache) :
                        LET p == Split(s.extension.command)
                            q == Split(t.extension.command)
                        IN  /\ t.priority = s.priority
                            /\ Len(q) = Len(p)
                            /\ Front(q) = Front(p)
                            /\ Last(q) = a
                            /\ t.extension.scriptPath = s.extension.scriptPath
                            /\ t.extension.scriptType = s.extension.scriptType
                            /\ t.extension.config = s.extension.config

----------------------------------------------------------------------------
(* The dispatcher (bin/rc) and the child process *)

\* the names under which rc runs as itself
rcNames == { <<"rc">>, <<"rc", ".js">>, <<"rc-immutable">>, <<"rc-immutable", ".js">> }
isAliased == binaryName \notin rcNames

mainCommandOf(extension) == Split(extension.command)[1]

commandGroups(mainCommand) ==
    SelectSeq(extensionsCache, LAMBDA ext : mainCommandOf(ext) = mainCommand)

\* the entries that get an action: the only entry of its group, or an entry of a
\* larger group that is not the group's own (virtual) command
hasAction(extension) ==
    /\ mainCommandOf(extension) # <<>>
    /\ \/ Len(commandGroups(mainCommandOf(extension))) = 1
       \/ extension.command # mainCommandOf(extension)

\* config.options: the option names the command is registered with
declaredOptions(extension) ==
    IF extension.config = <<>> THEN {}
    ELSE {extension.config[1].options[i] : i \in 1..Len(extension.config[1].options)}

\* the values an entry of the options object can hold: undefined, "", "p"
OptionValues == { <<>>, << <<>> >>, << <<"p">> >> }

\* the options objects over a set of names: any of the names, in any order
RECURSIVE OptionObjects(_)
OptionObjects(names) ==
    {<<>>} \cup
    UNION { { <<[key |-> k, value |-> v]>> \o more :
                v \in OptionValues, more \in OptionObjects(names \ {k}) } :
            k \in names }

\* --name value for every option the user gave
RECURSIVE optionTokens(_)
optionTokens(options) ==
    IF options = <<>> THEN <<>>
    ELSE (IF Head(options).value = <<>> THEN <<>>
          ELSE << <<"--">> \o Head(options).key, Head(options).value[1] >>)
         \o optionTokens(Tail(options))

\* program-level flags typed before the command, and what is typed after it
Befores == { <<>>, <<VERBOSE>> }
Rests == { <<>>, << <<"r">>, DEBUG >> }

\* main(): a new loader, loadExtensions, the commands registered
Boot ==
    /\ pc = "boot"
    /\ loadExtensions
    /\ pc' = "ready"
    /\ UNCHANGED <<envVars, shellVars, binaryName, typed, argv, entry, context, spawned, ioLog,
                   child, promise, exitStatus>>

\* the action of a registered command or subcommand, up to its await
RunCommand(extension, before, options, rest, spawnOk, readsStdin) ==
    /\ pc = "ready"
    /\ ~isAliased
    /\ hasAction(extension)
    /\ typed' = [before |-> before, rest |-> rest]
    /\ argv' = before \o Split(extension.command) \o optionTokens(options) \o rest
    /\ executeExtension(extension, options, argv', spawnOk, readsStdin)
    /\ pc' = "awaiting"
    /\ UNCHANGED <<envVars, shellVars, loaderVars, binaryName, exitStatus>>

\* handleAliasedExecution, up to its await
HandleAliasedExecution(additionalArgs, spawnOk, readsStdin) ==
    /\ pc = "ready"
    /\ isAliased
    /\ LET matchingExtensions ==
               SelectSeq(extensionsCache, LAMBDA ext : Last(Split(ext.command)) = binaryName)
       IN  IF Len(matchingExtensions) # 1
           THEN /\ pc' = "exited"
                /\ exitStatus' = <<1>>
                /\ UNCHANGED <<typed, argv, entry, context, spawned, ioLog, child, promise>>
           ELSE /\ typed' = [before |-> <<>>, rest |-> additionalArgs]
                /\ argv' = Split(matchingExtensions[1].command) \o additionalArgs
                /\ executeExtension(matchingExtensions[1], <<>>, argv', spawnOk, readsStdin)
                /\ pc' = "awaiting"
                /\ UNCHANGED exitStatus
    /\ UNCHANGED <<envVars, shellVars, loaderVars, binaryName>>

\* an end() call on child.stdin is in the log
stdinEnded == \E i \in 1..Len(ioLog) : ioLog[i].op = "end"

\* the codes a child exits with of its own accord
ExitCodes == {0, 2}
\* the code of the close event after a failed spawn (-ENOENT)
SpawnErrorCode == 0 - 2

unchangedByChild ==
    UNCHANGED <<envVars, shellVars, loaderVars, binaryName, typed, argv, pc, entry, context, spawned,
                ioLog, exitStatus>>

\* the child ends of its own accord; one that reads its standard input to the end
\* does so only after the stream was ended
ChildExit(code) ==
    /\ pc = "awaiting"
    /\ child.state = "running"
    /\ child.readsStdin => stdinEnded
    /\ child' = [child EXCEPT !.state = "exited", !.code = <<code>>]
    /\ UNCHANGED promise
    /\ unchangedByChild

\* the child is killed by a signal: its exit code is null
ChildKilled ==
    /\ pc = "awaiting"
    /\ child.state = "running"
    /\ child' = [child EXCEPT !.state = "exited", !.code = <<>>]
    /\ UNCHANGED promise
    /\ unchangedByChild

\* resolve and reject act on a pending promise only
settle(p, outcome) == IF p = "pending" THEN outcome ELSE p

\* a close handler that takes a null code for success
closeOutcomeNullOk(code) ==
    IF code = <<0>> \/ code = <<>> THEN "resolved" ELSE "rejected"

\* child.on("close"): code === 0 resolves, anything else rejects
closeOutcome(code) ==
    IF code = <<0>> THEN "resolved" ELSE "rejected"

\* child.on("error") after a failed spawn; the close event follows
OnError ==
    /\ pc = "awaiting"
    /\ child.state = "failed"
    /\ promise' = settle(promise, "rejected")
    /\ child' = [child EXCEPT !.state = "errored", !.code = <<SpawnErrorCode>>]
    /\ unchangedByChild

OnClose ==
    /\ pc = "awaiting"
    /\ child.state \in {"exited", "errored"}
    /\ promise' = settle(promise, closeOutcome(child.code))
    /\ child' = [child EXCEPT !.state = "closed"]
    /\ unchangedByChild

\* after the await: the action returns and rc ends with status 0, or the catch
\* block calls process.exit(1); handleAliasedExecution calls process.exit(0) or,
\* in its catch block, process.exit(1)
Finish ==
    /\ pc = "awaiting"
    /\ promise \in {"resolved", "rejected"}
    /\ pc' = "exited"
    /\ exitStatus' = <<IF promise = "resolved" THEN 0 ELSE 1>>
    /\ UNCHANGED <<envVars, shellVars, loaderVars, binaryName, typed, argv, entry, context, spawned,
                   ioLog, child, promise>>

----------------------------------------------------------------------------
(* Specification of a run of rc *)

OptionedDoc ==
    [AliasedDoc EXCEPT !.options = << <<"e">>, <<"E">> >>, !.passContext = <<TRUE>>]
RunnerDoc == [AliasedDoc EXCEPT !.options = << <<"command">> >>, !.runner = <<"tsx">>]
QuietDoc == [AliasedDoc EXCEPT !.passContext = <<FALSE>>]
ExecDocs == {AliasedDoc, OptionedDoc, RunnerDoc, QuietDoc}

ScriptYWith(doc) == <<Script(<<"y", ".py">>), Sidecar(<<"y", ".yaml">>, "yaml", doc)>>

\* scripts of the types that ScriptX and ScriptY are not
ScriptsOfOtherTypes ==
    <<Script(<<"j", ".js">>), Script(<<"t", ".ts">>), Script(<<"c", ".cjs">>),
      Script(<<"r", ".rb">>), Script(<<"p", ".php">>)>>

\* a lone script; an aliased script at the top or in a subdirectory; both at once;
\* a subdirectory that holds nothing but its own metadata; scripts of the other
\* types
ExecListings ==
    {ScriptX}
    \cup {ScriptYWith(doc) : doc \in ExecDocs}
    \cup {<<Dir(<<"n">>, <<Sidecar(<<"n", ".yaml">>, "yaml", GroupDoc)>> \o ScriptYWith(doc))>> :
            doc \in ExecDocs}
    \cup {ScriptYWith(AliasedDoc) \o <<Dir(<<"n">>, ScriptYWith(AliasedDoc))>>}
    \cup {<<Dir(<<"n">>, <<Sidecar(<<"n", ".yaml">>, "yaml", GroupDoc)>>)>>}
    \cup {ScriptsOfOtherTypes}

\* the first root holds the listing, the others are configured but missing
ExecChoice(listing) ==
    [i \in 0..(NRoots - 1) |->
        IF i = 0 THEN [conf |-> "dir", exists |-> TRUE, items |-> listing]
        ELSE [conf |-> "dir", exists |-> FALSE, items |-> <<>>]]

BinaryNames == { <<"rc">>, <<"y">>, <<"x">>, <<"n">> }

InitExec ==
    /\ \E listing \in ExecListings :
          /\ fs = FsOf(ExecChoice(listing))
          /\ extensionsDirs = DirsOf(ExecChoice(listing))
    /\ InitLoader
    /\ InitShell
    /\ binaryName \in BinaryNames
    /\ InitProcess

NextExec ==
    \/ Boot
    \/ \E i \in 1..Len(extensionsCache), before \in Befores, rest \in Rests,
          spawnOk \in BOOLEAN, readsStdin \in BOOLEAN :
          \E options \in OptionObjects(declaredOptions(extensionsCache[i])) :
              RunCommand(extensionsCache[i], before, options, rest, spawnOk, readsStdin)
    \/ \E additionalArgs \in Rests, spawnOk \in BOOLEAN, readsStdin \in BOOLEAN :
          HandleAliasedExecution(additionalArgs, spawnOk, readsStdin)
    \/ \E code \in ExitCodes : ChildExit(code)
    \/ ChildKilled
    \/ OnError
    \/ OnClose
    \/ Finish

SpecExec == InitExec /\ [][NextExec]_vars

\* once a command is dispatched the event loop delivers every event it has, and a
\* child that can end of its own accord does; nothing promises a signal
FairSpecExec ==
    /\ SpecExec
    /\ WF_vars(\E code \in ExitCodes : ChildExit(code))
    /\ WF_vars(OnError)
    /\ WF_vars(OnClose)
    /\ WF_vars(Finish)

----------------------------------------------------------------------------
(* Properties of a run of rc *)

Settled == {"resolved", "rejected"}
called == context # <<>>

\* C3: executeExtension spawns the child at most once and its promise settles once:
\* when the child has closed the promise is resolved if the close code is 0 and
\* rejected if it is another code or null; after the error event of a failed spawn
\* it is rejected; it is resolved in no other case; and a settled promise never
\* changes.
C3_SpawnOnceSettleOnce ==
    /\ [](/\ Len(spawned) <= 1
          /\ Count(ioLog, LAMBDA o : o.op = "spawn") = Len(spawned))
    /\ [](child.state = "closed" =>
              promise = (IF child.code = <<0>> THEN "resolved" ELSE "rejected"))
    /\ [](child.state = "errored" => promise = "rejected")
    /\ [](promise = "resolved" => child.state = "closed" /\ child.code = <<0>>)
    /\ [][(promise \in Settled) => (promise' = promise)]_vars

\* a child killed by a signal has closed and the promise is rejected
C3_Witness ==
    /\ Len(spawned) = 1
    /\ child.state = "closed"
    /\ child.code = <<>>
    /\ promise = "rejected"

\* C4: when the child of a resolved command exited with code c, rc exits with
\* status c, under rc and under an alias name alike.
C4_FaithfulProxy ==
    (pc = "exited" /\ child.code # <<>> /\ child.code[1] >= 0) => exitStatus = child.code

\* what executeExtension would spawn for another entry with the same flags before
\* the command, the same options and the same residual arguments
routed(extension) ==
    LET options == context[1].options
        args == typed.before \o Split(extension.command) \o optionTokens(options)
                \o typed.rest
    IN  spawnCall(extension, contextOf(extension, options, args))

overlayOf(call) == [k \in DOMAIN call.env \ DOMAIN processEnv |-> call.env[k]]

\* C6: alias routing equivalence.  For the entry that was executed and every other
\* entry of the table with the same script (its alias, or its original), executing
\* the other with the same options and residual arguments spawns the same runner
\* with the same argument vector, and the two overlays have the same variables with
\* the same values except RC_COMMAND, which is the command path of each.
C6_AliasRoutingEquivalence ==
    (called /\ ~isAliased) =>
        \A other \in Range(extensionsCache) :
            (other.scriptPath = entry[1].scriptPath /\ hasAction(other)) =>
                LET mine == routed(entry[1])
                    theirs == routed(other)
                IN  /\ mine = spawned[1]
                    /\ mine.runner = theirs.runner
                    /\ mine.args = theirs.args
                    /\ DOMAIN mine.env = DOMAIN theirs.env
                    /\ \A k \in DOMAIN mine.env \ {RC_COMMAND} : mine.env[k] = theirs.env[k]
                    /\ mine.env[RC_COMMAND] = entry[1].command
                    /\ theirs.env[RC_COMMAND] = other.command

\* C7: when passContext is not set, a call of executeExtension that is awaiting
\* its child eventually settles.
C7_NoBlockedReader ==
    (pc = "awaiting" /\ ~passContextOf(entry[1])) ~> (promise \in Settled)

\* the --name value tokens of process.argv.slice(2): what lies between the command
\* and the residual arguments
typedOptionTokens ==
    SubSeq(argv, Len(typed.before) + Len(Split(entry[1].command)) + 1,
           Len(argv) - Len(typed.rest))

C9_FixedVariables ==
    called =>
        /\ spawned[1].env[RC_COMMAND] = Join(Split(entry[1].command))
        /\ spawned[1].env[RC_SCRIPT_PATH] = pathStr(entry[1].scriptPath)
        /\ spawned[1].env[RC_SCRIPT_TYPE] = <<entry[1].scriptType>>

variableOf(option) == <<"RC_">> \o toUpperCase(option.key)
fixedVariables == {RC_COMMAND, RC_SCRIPT_PATH, RC_SCRIPT_TYPE}
optionVariables(options, Given(_)) ==
    {variableOf(options[i]) : i \in {j \in 1..Len(options) : Given(options[j])}}

nonEmpty(option) == option.value # <<>> /\ option.value[1] # <<>>
defined(option) == option.value # <<>>

\* C10, as stated: every option with a non-empty value has its variable
\* RC_<NAME> in the overlay, holding that value; options with an empty or absent
\* value add no variable.
C10_NonEmptyOptionVariables ==
    called =>
        LET env == context[1].env
            options == context[1].options
        IN  /\ \A i \in 1..Len(options) :
                  nonEmpty(options[i]) =>
                      /\ variableOf(options[i]) \in DOMAIN env
                      /\ env[variableOf(options[i])] = options[i].value[1]
            /\ DOMAIN env \subseteq fixedVariables \cup optionVariables(options, nonEmpty)

\* the last option of the object with a defined value and the variable name v
lastDefined(options, v) ==
    LET at == {i \in 1..Len(options) : defined(options[i]) /\ variableOf(options[i]) = v}
    IN  options[CHOOSE i \in at : \A j \in at : j <= i]

\* C10, amended: every option whose value is not undefined, the empty string
\* included, has its variable RC_<NAME> in the overlay; the variable holds the value
\* of the last such option, in the order of the options object, with that upper-cased
\* name; options whose value is undefined add no variable.
C10_DefinedOptionVariables ==
    called =>
        LET env == context[1].env
            options == context[1].options
        IN  /\ \A i \in 1..Len(options) :
                  defined(options[i]) =>
                      /\ variableOf(options[i]) \in DOMAIN env
                      /\ env[variableOf(options[i])]
                            = lastDefined(options, variableOf(options[i])).value[1]
            /\ DOMAIN env = fixedVariables \cup optionVariables(options, defined)

\* two options whose names differ in case only, the first non-empty, the last empty
C10_Witness ==
    /\ called
    /\ Len(context[1].options) = 2
    /\ nonEmpty(context[1].options[1])
    /\ context[1].options[2].value = << <<>> >>
    /\ variableOf(context[1].options[1]) = variableOf(context[1].options[2])
    /\ context[1].env[variableOf(context[1].options[1])] = <<>>

\* a virtual entry stands for a directory: its script path is the directory
isVirtual(extension) == isDirectory(extension.scriptPath)

\* C11: a virtual (directory-level) entry is never handed to executeExtension and
\* no child is ever spawned for it, under rc and under an alias name alike.
C11_VirtualNeverExecuted ==
    called => ~isVirtual(entry[1])

\* the Supported Runtimes table of the README
SupportedRuntimes ==
    [ext \in {".js", ".ts", ".sh", ".py", ".rb", ".php"} |->
        CASE ext = ".js" -> <<"node">>
          [] ext = ".ts" -> <<"tsx">>
          [] ext = ".sh" -> <<"bash">>
          [] ext = ".py" -> <<"python3">>
          [] ext = ".rb" -> <<"ruby">>
          [] ext = ".php" -> <<"php">>]

declaredRunner(extension) ==
    IF extension.config = <<>> THEN <<>> ELSE extension.config[1].runner

\* C12: a script is spawned with the runner its sidecar declares, and without one
\* with the runner the Supported Runtimes table gives for its file extension.
C12_RunnerByTable ==
    (called /\ ~isVirtual(entry[1])) =>
        LET ext == extname(basename(entry[1].scriptPath))[1]
        IN  IF declaredRunner(entry[1]) # <<>>
            THEN spawned[1].runner = declaredRunner(entry[1])
            ELSE ext \in DOMAIN SupportedRuntimes => spawned[1].runner = SupportedRuntimes[ext]

----------------------------------------------------------------------------
(* More properties of the loader *)

\* the command path of what lies at path under root: the components below the root
commandPathOf(root, path) == SubSeq(path, Len(root) + 1, Len(path))

virtualSources(root, dir) ==
    SelectSeq(extensionSourcesCache,
              LAMBDA s : s.sourceDir = root /\ s.extension.scriptPath = dir)

\* C13: every directory that carries its own metadata document has exactly one
\* entry in the scan of its root, at the command path prefix + [dirname], with that
\* metadata and of type "virtual"; every script entry below the directory is a
\* separate entry at a longer command path that starts with the directory's.
C13_VirtualEntryOfDirectory ==
    cacheValid =>
        \A k \in 1..Len(extensionsDirs) :
            (extensionsDirs[k] # <<>> /\ existsSync(extensionsDirs[k])) =>
                \A dir \in directoriesBelow(extensionsDirs[k]) :
                    loadSidecarConfig(dir) # <<>> =>
                        LET own == virtualSources(extensionsDirs[k], dir)
                            prefix == commandPathOf(extensionsDirs[k], dir)
                        IN  /\ Len(own) = 1
                            /\ Split(own[1].extension.command) = prefix
                            /\ own[1].extension.config = loadSidecarConfig(dir)
                            /\ own[1].extension.scriptType = "virtual"
                            /\ \A s \in Range(extensionSourcesCache) :
                                  (/\ s.sourceDir = extensionsDirs[k]
                                   /\ IsPrefix(dir, s.extension.scriptPath)
                                   /\ s.extension.scriptPath # dir) =>
                                      /\ Len(Split(s.extension.command)) > Len(prefix)
                                      /\ IsPrefix(prefix, Split(s.extension.command))

\* C14: scanning is deterministic.  The filesystem holds the same things all
\* along, so the sources of the last uncached loadExtensions, which the cache keeps,
\* are, element for element and in the same order, what a scan made now returns.
C14_ScanDeterministic ==
    cacheValid => allExtensionSources = extensionSourcesCache

----------------------------------------------------------------------------
(* The wrapper script that rc alias writes for a namespace *)

startsWith(str, prefix) ==
    Len(prefix) <= Len(str) /\ SubSeq(str, 1, Len(prefix)) = prefix

\* str.replace(pat, ""): the first occurrence of pat taken out
RECURSIVE removeFirst(_, _)
removeFirst(str, pat) ==
    IF Len(str) < Len(pat) THEN str
    ELSE IF startsWith(str, pat) THEN SubSeq(str, Len(pat) + 1, Len(str))
    ELSE <<Head(str)>> \o removeFirst(Tail(str), pat)

\* ${PATH//pat/}: every occurrence of pat taken out, left to right
RECURSIVE removeAll(_, _)
removeAll(str, pat) ==
    IF Len(str) < Len(pat) THEN str
    ELSE IF startsWith(str, pat) THEN removeAll(SubSeq(str, Len(pat) + 1, Len(str)), pat)
    ELSE <<Head(str)>> \o removeAll(Tail(str), pat)

COLON == ":"

\* the value of PATH for a list of directories
RECURSIVE pathValue(_)
pathValue(dirs) ==
    IF dirs = <<>> THEN <<>>
    ELSE IF Len(dirs) = 1 THEN dirs[1]
    ELSE dirs[1] \o <<COLON>> \o pathValue(Tail(dirs))

\* which name: <<file>> in the first directory of PATH that holds an executable of
\* that name, or <<>>; holders are the directories that hold one
which(path, name, holders) ==
    LET dirs == SplitAt(path, COLON, <<>>)
        hits == {i \in 1..Len(dirs) : dirs[i] \in holders}
    IN  IF hits = {} THEN <<>>
        ELSE <<dirs[CHOOSE i \in hits : \A j \in hits : i <= j] \o <<"/">> \o name>>

\* is_custom_command "$@": "$*" is one of CUSTOM_COMMANDS
is_custom_command(script, args) ==
    \E i \in 1..Len(script.customCommands) : script.customCommands[i] = Join(args)

\* the routing block of the script for arguments args, with PATH and the
\* directories that hold an executable called like the alias
wrapperDispatch(script, args, path, holders) ==
    IF args = <<>> \/ is_custom_command(script, args)
    THEN [route |-> "rc", exec |-> script.rcBinaryPath,
          args |-> Split(script.targetCommand) \o args, exit |-> <<>>]
    ELSE LET REAL_COMMAND ==
                 which(removeAll(path, script.extensionDir \o <<COLON>>),
                       script.aliasName, holders)
         IN  IF REAL_COMMAND # <<>> /\ REAL_COMMAND[1] # script.wrapperPath
             THEN [route |-> "real", exec |-> REAL_COMMAND[1], args |-> args, exit |-> <<>>]
             ELSE [route |-> "none", exec |-> <<>>, args |-> args, exit |-> <<1>>]

----------------------------------------------------------------------------
(* rc alias *)

\* the atoms that hold a dot, and str.includes(".") for a path
dottedAtoms == DotAtoms \cup {".r"}
includesDot(path) ==
    \E i \in 1..Len(path) : \E j \in 1..Len(path[i]) : path[i][j] \in dottedAtoms

\* process.argv[1] of rc, and the directory it lies in
rcBinaryPath == << <<"bin">>, <<"rc">> >>
dirname(path) == Front(path)

\* writeFileSync(join(dir, file.name), ...): the file replaces one of its name in
\* the directory at dir, or is new in it
RECURSIVE writeNode(_, _, _)
writeNode(node, dir, file) ==
    IF dir = <<>>
    THEN IF \E i \in 1..Len(node.items) : node.items[i].name = file.name
         THEN [node EXCEPT !.items =
                 [i \in 1..Len(node.items) |->
                     IF node.items[i].name = file.name THEN file ELSE node.items[i]]]
         ELSE [node EXCEPT !.items = Append(node.items, file)]
    ELSE [node EXCEPT !.items =
            [i \in 1..Len(node.items) |->
                IF node.items[i].name = Head(dir)
                THEN writeNode(node.items[i], Tail(dir), file)
                ELSE node.items[i]]]

File(kind, path, content) == [kind |-> kind, path |-> path, content |-> content]

\* extensions.filter: the commands of the namespace, and its own command
directoryCommandsOf(targetCommand) ==
    SelectSeq(extensionsCache,
              LAMBDA ext : \/ startsWith(ext.command, targetCommand \o <<SP>>)
                           \/ ext.command = targetCommand)

\* <<the directory join(baseDir, ...targetCommand.split(" "))>> of the first root
\* that has it, or <<>>
foundDirOf(targetCommand) ==
    LET hits == {k \in 1..Len(extensionsDirs) :
                    existsSync(extensionsDirs[k] \o Split(targetCommand))}
    IN  IF hits = {} THEN <<>>
        ELSE <<extensionsDirs[CHOOSE k \in hits : \A l \in hits : k <= l]
                 \o Split(targetCommand)>>

\* <<the directory the wrapper goes to>>: the script path of the namespace's own
\* entry, else the root of its first command + the target's parts, else the
\* directory found on disk; <<>> when createDirectoryAlias gives up
extensionDirOf(targetCommand) ==
    LET directoryCommands == directoryCommandsOf(targetCommand)
        own == SelectSeq(directoryCommands, LAMBDA ext : ext.command = targetCommand)
    IN  IF own # <<>> THEN <<own[1].scriptPath>>
        ELSE IF directoryCommands # <<>>
        THEN LET scriptDir == dirname(directoryCommands[1].scriptPath)
                 bases == {k \in 1..Len(extensionsDirs) : IsPrefix(extensionsDirs[k], scriptDir)}
             IN  IF bases = {} THEN <<>>
                 ELSE <<extensionsDirs[CHOOSE k \in bases : \A l \in bases : k <= l]
                          \o Split(targetCommand)>>
        ELSE foundDirOf(targetCommand)

\* directoryCommands.map(replace).filter: the names listed in CUSTOM_COMMANDS
availableCommands(targetCommand) ==
    LET directoryCommands == directoryCommandsOf(targetCommand)
        names == [i \in 1..Len(directoryCommands) |->
                     removeFirst(directoryCommands[i].command, targetCommand \o <<SP>>)]
    IN  SelectSeq(names, LAMBDA cmd : cmd # targetCommand)

\* the template filled in: all that the text of the script depends on
wrapperScript(aliasName, targetCommand, extensionDir) ==
    [aliasName |-> aliasName,
     targetCommand |-> targetCommand,
     customCommands |-> availableCommands(targetCommand),
     rcBinaryPath |-> pathStr(rcBinaryPath),
     extensionDir |-> pathStr(extensionDir),
     wrapperPath |-> pathStr(join(extensionDir, aliasName \o <<".sh">>))]

\* the config createDirectoryAlias writes beside the wrapper when there is none
WrapperDoc == [NoDoc EXCEPT !.description = <<"w">>, !.runner = <<"bash">>]

\* createDirectoryAlias: [files written, filesystem afterwards, failed]
createDirectoryAlias(aliasName, targetCommand) ==
    LET dir == extensionDirOf(targetCommand)
    IN  IF dir = <<>> THEN [files |-> <<>>, fs |-> fs, failed |-> FALSE]
        ELSE IF ~isDirectory(dir[1]) THEN [files |-> <<>>, fs |-> fs, failed |-> TRUE]
        ELSE LET extensionDir == dir[1]
                 wrapperPath == join(extensionDir, aliasName \o <<".sh">>)
                 yamlPath == join(extensionDir, aliasName \o <<".yaml">>)
                 needsYaml == ~existsSync(yamlPath)
                 withYaml ==
                     IF needsYaml
                     THEN writeNode(fs, extensionDir,
                                    Sidecar(aliasName \o <<".yaml">>, "yaml", WrapperDoc))
                     ELSE fs
                 script == wrapperScript(aliasName, targetCommand, extensionDir)
             IN  [files |-> (IF needsYaml THEN <<File("yaml", yamlPath, <<>>)>> ELSE <<>>)
                            \o <<File("wrapper", wrapperPath, <<script>>)>>,
                  fs |-> writeNode(withYaml, extensionDir, Script(aliasName \o <<".sh">>)),
                  failed |-> FALSE]

endsWith(str, suffix) ==
    Len(suffix) <= Len(str) /\ SubSeq(str, Len(str) - Len(suffix) + 1, Len(str)) = suffix

\* the most files rc alias creates in a behaviour
MaxWritten == 4

isWritten(kind, path) == \E i \in 1..Len(written) : written[i].kind = kind /\ written[i].path = path

\* the symlink branch: ln -sf rc <dir of rc>/<aliasName>, unless it is there already
createSymlink(aliasName) ==
    LET aliasPath == join(dirname(rcBinaryPath), aliasName)
    IN  /\ written' = IF isWritten("symlink", aliasPath) THEN written
                      ELSE Append(written, File("symlink", aliasPath, <<>>))
        /\ exitStatus' = <<0>>
        /\ UNCHANGED fs

unchangedByAlias ==
    UNCHANGED <<extensionsDirs, extensionSourcesCache, conflictsCache, cacheValid, binaryName,
                typed, entry, context, spawned, ioLog, child, promise, dispatch, report,
                configVars, loads>>

\* the order of localeCompare on the characters of command paths
Collation == <<SP, "a", "b", "m", "n", "x", "y", "z">>
atomRank(a) == CHOOSE i \in 1..Len(Collation) : Collation[i] = a

\* a.localeCompare(b) < 0
RECURSIVE sortsBefore(_, _)
sortsBefore(a, b) ==
    IF b = <<>> THEN FALSE
    ELSE IF a = <<>> THEN TRUE
    ELSE IF Head(a) # Head(b) THEN atomRank(Head(a)) < atomRank(Head(b))
    ELSE sortsBefore(Tail(a), Tail(b))

\* extensions.sort((a, b) => a.command.localeCompare(b.command)): a stable sort
RECURSIVE sortByCommand(_)
sortByCommand(extensions) ==
    IF extensions = <<>> THEN <<>>
    ELSE LET rest == sortByCommand(Front(extensions))
             ext == Last(extensions)
             before == SelectSeq(rest, LAMBDA e : ~sortsBefore(ext.command, e.command))
             after == SelectSeq(rest, LAMBDA e : sortsBefore(ext.command, e.command))
         IN  before \o <<ext>> \o after

\* rc alias <command...> of src/bin/rc.ts: a namespace is refused
AliasCommand(commandArgs) ==
    /\ pc = "ready"
    /\ ~isAliased
    /\ Len(written) < MaxWritten
    /\ argv' = << <<"alias">> >> \o commandArgs
    /\ pc' = "exited"
    /\ LET fullCommand == Join(commandArgs)
           aliasName == Last(commandArgs)
           matching == SelectSeq(extensionsCache, LAMBDA ext : ext.command = fullCommand)
       IN  IF matching = <<>>
           THEN exitStatus' = <<1>> /\ UNCHANGED <<fs, written>>
           ELSE LET isDirectoryCommand ==
                        /\ endsWith(pathStr(matching[1].scriptPath), aliasName)
                        /\ ~includesDot(matching[1].scriptPath)
                IN  IF isDirectoryCommand
                    THEN exitStatus' = <<1>> /\ UNCHANGED <<fs, written>>
                    ELSE createSymlink(aliasName)
    /\ UNCHANGED extensionsCache
    /\ unchangedByAlias

\* rc alias <command...> with wrappers: a namespace gets a wrapper script
SmartAliasCommand(commandArgs) ==
    /\ pc = "ready"
    /\ ~isAliased
    /\ Len(written) < MaxWritten
    /\ argv' = << <<"alias">> >> \o commandArgs
    /\ pc' = "exited"
    /\ LET fullCommand == Join(commandArgs)
           aliasName == Last(commandArgs)
           matching == SelectSeq(extensionsCache, LAMBDA ext : ext.command = fullCommand)
           below == SelectSeq(extensionsCache,
                              LAMBDA ext : startsWith(ext.command, fullCommand \o <<SP>>))
           potentialDir ==
               \E k \in 1..Len(extensionsDirs) :
                   \/ Len(commandArgs) > 1 /\ existsSync(extensionsDirs[k] \o Front(commandArgs))
                   \/ Len(commandArgs) = 1 /\ existsSync(extensionsDirs[k] \o commandArgs)
           isDirectoryCommand ==
               IF matching # <<>>
               THEN /\ endsWith(pathStr(matching[1].scriptPath), aliasName)
                    /\ ~includesDot(matching[1].scriptPath)
               ELSE ~includesDot(<<fullCommand>>)
       IN  IF matching = <<>> /\ below = <<>>
           THEN IF potentialDir
                THEN createSymlink(aliasName) /\ UNCHANGED extensionsCache
                ELSE /\ extensionsCache' = sortByCommand(extensionsCache)
                     /\ exitStatus' = <<1>>
                     /\ UNCHANGED <<fs, written>>
           ELSE IF isDirectoryCommand
           THEN LET made == createDirectoryAlias(aliasName, fullCommand)
                IN  /\ fs' = made.fs
                    /\ written' = written \o made.files
                    /\ exitStatus' = <<IF made.failed THEN 1 ELSE 0>>
                    /\ UNCHANGED extensionsCache
           ELSE createSymlink(aliasName) /\ UNCHANGED extensionsCache
    /\ unchangedByAlias

\* rc is started once more: a new process with a new loader
Restart ==
    /\ pc = "exited"
    /\ dispatch = <<>>
    /\ pc' = "boot"
    /\ argv' = <<>>
    /\ exitStatus' = <<>>
    /\ invalidateCache
    /\ UNCHANGED <<envVars, binaryName, typed, entry, context, spawned, ioLog, child, promise,
                   shellVars>>

\* the script a wrapper file holds now: what was written to its path last
currentScript(path) ==
    LET at == {i \in 1..Len(written) : written[i].kind = "wrapper" /\ written[i].path = path}
    IN  written[CHOOSE i \in at : \A j \in at : j <= i].content[1]

wrapperPaths == {written[i].path : i \in {j \in 1..Len(written) : written[j].kind = "wrapper"}}

\* a directory of the system that is no extension directory
BinDir == pathStr(<< <<"b">> >>)

\* the longest PATH, in directories
MaxPathLen == 3

RECURSIVE DirLists(_, _)
DirLists(dirs, n) ==
    IF n = 0 THEN {<<>>}
    ELSE DirLists(dirs, n - 1)
         \cup {Append(l, d) : l \in {x \in DirLists(dirs, n - 1) : Len(x) = n - 1}, d \in dirs}

\* what a wrapper is called with: nothing, a custom command, a custom command with
\* an argument, a custom command of two words, something else
WrapperArgs ==
    { <<>>, << <<"y">> >>, << <<"y">>, <<"r">> >>, << <<"m">>, <<"y">> >>, << <<"s">> >> }

\* the user runs a wrapper from a shell
RunWrapper(path, args, dirs, holders) ==
    /\ pc = "exited"
    /\ dispatch = <<>>
    /\ path \in wrapperPaths
    /\ LET script == currentScript(path)
       IN  dispatch' = <<[script |-> script,
                          called |-> args,
                          path |-> pathValue(dirs),
                          holders |-> holders,
                          outcome |-> wrapperDispatch(script, args, pathValue(dirs), holders)]>>
    /\ UNCHANGED <<envVars, loaderVars, procVars, written, report, configVars, loads>>

----------------------------------------------------------------------------
(* Specification of rc alias and of the wrappers it writes *)

\* a root like r0 and one with a dot in its path, like ~/.local/share/rc/extensions
WrapperRoots == { RootPath(0), << <<".r", "0">> >> }

\* a namespace with a script; one with its own metadata too; one with a namespace
\* below it; an empty one
WrapperListings ==
    { <<Dir(<<"n">>, <<Script(<<"y", ".py">>)>>)>>,
      <<Dir(<<"n">>, <<Sidecar(<<"n", ".yaml">>, "yaml", GroupDoc), Script(<<"y", ".py">>)>>)>>,
      <<Dir(<<"n">>, <<Dir(<<"m">>, <<Script(<<"y", ".py">>)>>)>>)>>,
      <<Dir(<<"n">>, <<>>)>> }

AliasArgs == { << <<"n">> >>, << <<"n">>, <<"y">> >>, << <<"n">>, <<"m">> >>, << <<"z">> >> }

InitWrapper ==
    /\ \E root \in WrapperRoots, listing \in WrapperListings :
          /\ fs = Dir(<<>>, <<Dir(root[1], listing)>>)
          /\ extensionsDirs = [k \in 1..NRoots |-> IF k = 1 THEN root ELSE RootPath(k - 1)]
    /\ InitLoader
    /\ InitShell
    /\ binaryName = <<"rc">>
    /\ InitProcess

NextWrapper ==
    \/ Boot
    \/ \E commandArgs \in AliasArgs : AliasCommand(commandArgs)
    \/ \E commandArgs \in AliasArgs : SmartAliasCommand(commandArgs)
    \/ Restart
    \/ \E path \in wrapperPaths, args \in WrapperArgs :
          \E dirs \in DirLists({currentScript(path).extensionDir, BinDir}, MaxPathLen),
             holders \in SUBSET {currentScript(path).extensionDir, BinDir} :
              RunWrapper(path, args, dirs, holders)

SpecWrapper == InitWrapper /\ [][NextWrapper]_vars

----------------------------------------------------------------------------
(* Properties of rc alias and of the wrappers *)

customNames(script) == Range(script.customCommands)

\* C15: a wrapper called with no arguments, or with a first argument that is one of
\* its custom command names, whatever follows it, runs rc with the namespace path
\* followed by all the arguments it was called with.
C15_CustomCommandReentersRc ==
    \A i \in 1..Len(dispatch) :
        LET d == dispatch[i]
        IN  (d.called = <<>> \/ d.called[1] \in customNames(d.script))
            => /\ d.outcome.route = "rc"
               /\ d.outcome.exec = d.script.rcBinaryPath
               /\ d.outcome.args = Split(d.script.targetCommand) \o d.called

\* C16: a wrapper called with a first argument that is not one of its custom
\* command names never runs the wrapper itself nor a file of the directory the
\* wrapper is installed in, whatever PATH holds.
C16_WrapperSelfExclusion ==
    \A i \in 1..Len(dispatch) :
        LET d == dispatch[i]
        IN  (d.called # <<>> /\ d.called[1] \notin customNames(d.script)
                /\ d.outcome.route = "real")
            => /\ d.outcome.exec # d.script.wrapperPath
               /\ ~startsWith(d.outcome.exec, d.script.extensionDir \o <<"/">>)

\* C17: the wrappers written for one namespace, by one run of rc alias after the
\* other with nothing changed in between but the files the runs wrote, are the same.
C17_SynthesisIdempotent ==
    \A i, j \in 1..Len(written) :
        (written[i].kind = "wrapper" /\ written[j].kind = "wrapper"
            /\ written[i].path = written[j].path)
        => written[i].content = written[j].content

\* the command path is a directory of some root
isNamespace(commandArgs) ==
    \E k \in 1..Len(extensionsDirs) : isDirectory(extensionsDirs[k] \o commandArgs)

\* C18: rc alias of a namespace exits with a non-zero status and creates neither a
\* symlink nor a wrapper.
C18_NamespaceAliasRefused ==
    [][(pc = "ready" /\ pc' = "exited" /\ argv' # <<>> /\ argv'[1] = <<"alias">>
           /\ isNamespace(Tail(argv')))
       => (exitStatus' \notin {<<>>, <<0>>} /\ written' = written /\ fs' = fs)]_vars

----------------------------------------------------------------------------
(* rc doctor *)

RECURSIVE scriptPathsOf(_)
scriptPathsOf(extensions) ==
    IF extensions = <<>> THEN <<>>
    ELSE <<Head(extensions).scriptPath>> \o scriptPathsOf(Tail(extensions))

RECURSIVE commandsIn(_, _)
commandsIn(extensions, seen) ==
    IF extensions = <<>> THEN <<>>
    ELSE LET c == Head(extensions).command
         IN  IF c \in seen THEN commandsIn(Tail(extensions), seen)
             ELSE <<c>> \o commandsIn(Tail(extensions), seen \cup {c})

\* the check for duplicate commands: a warning for each command that more than one
\* of the loaded extensions has, with the script paths to check
RECURSIVE duplicateWarnings(_, _)
duplicateWarnings(extensions, commands) ==
    IF commands = <<>> THEN <<>>
    ELSE LET exts == SelectSeq(extensions, LAMBDA e : e.command = Head(commands))
         IN  (IF Len(exts) > 1
              THEN <<[command |-> Head(commands), active |-> <<>>,
                      shadowed |-> <<>>, check |-> scriptPathsOf(exts)]>>
              ELSE <<>>) \o duplicateWarnings(extensions, Tail(commands))

\* the conflict analysis: a panel for each conflict record of the loader, with the
\* command, the active script and the shadowed scripts
RECURSIVE conflictPanels(_)
conflictPanels(conflicts) ==
    IF conflicts = <<>> THEN <<>>
    ELSE <<[command |-> Head(conflicts).command,
            active |-> <<Head(conflicts).primaryExtension.scriptPath>>,
            shadowed |-> scriptPathsOf(Head(conflicts).conflictingExtensions),
            check |-> <<>>]>>
         \o conflictPanels(Tail(conflicts))

unchangedByDoctor ==
    UNCHANGED <<envVars, binaryName, typed, entry, context, spawned, ioLog, child, promise,
                written, dispatch, configVars, loads>>

\* rc doctor, with the check for duplicate commands
handleDoctor ==
    /\ pc = "ready"
    /\ ~isAliased
    /\ loadExtensions
    /\ report' = <<duplicateWarnings(extensionsCache', commandsIn(extensionsCache', {}))>>
    /\ argv' = << <<"doctor">> >>
    /\ pc' = "exited"
    /\ exitStatus' = <<0>>
    /\ unchangedByDoctor

\* rc doctor, with the conflict analysis
handleDoctorConflicts ==
    /\ pc = "ready"
    /\ ~isAliased
    /\ loadExtensions
    /\ report' = <<conflictPanels(conflictsCache')>>
    /\ argv' = << <<"doctor">> >>
    /\ pc' = "exited"
    /\ exitStatus' = <<0>>
    /\ unchangedByDoctor

NextDoctor == Boot \/ handleDoctor \/ handleDoctorConflicts

SpecDoctor == Init /\ [][NextDoctor]_vars

\* C19: rc doctor reports every command that two or more discovered sources claim
\* as a conflict, naming the active script and each shadowed script, and reports
\* no conflict when every command has a single source.
C19_DoctorSurfacesConflicts ==
    report # <<>> =>
        /\ \A c \in rawCommands :
              LET raw == SelectSeq(extensionSourcesCache, LAMBDA s : s.extension.command = c)
                  panels == SelectSeq(report[1], LAMBDA panel : panel.command = c)
                  winner == CHOOSE e \in entriesOf(c) : TRUE
              IN  IF Len(raw) > 1
                  THEN /\ Len(panels) = 1
                       /\ panels[1].active = <<winner.scriptPath>>
                       /\ Len(panels[1].shadowed) = Len(raw) - 1
                       /\ \A path \in {s.extension.scriptPath : s \in Range(raw)} :
                             Count(raw, LAMBDA s : s.extension.scriptPath = path)
                                 = Count(panels[1].shadowed, LAMBDA q : q = path)
                                   + (IF winner.scriptPath = path THEN 1 ELSE 0)
                  ELSE panels = <<>>
        /\ \A panel \in Range(report[1]) : panel.command \in rawCommands

----------------------------------------------------------------------------
(* ConfigManager *)

\* XDGPaths.getExtensionsDir(): ~/.local/share/rc/extensions
XDGExtensionsDir == << <<".r", "0">> >>

\* a Config or a Partial<Config>: each key is <<value>>, or <<>> when it is absent
NoKeys == [extensionsDir |-> <<>>, extensionsDirs |-> <<>>, defaultRunner |-> <<>>,
           enableLogging |-> <<>>, darkMode |-> <<>>]

defaultConfig ==
    [NoKeys EXCEPT !.extensionsDirs = << <<XDGExtensionsDir>> >>,
                   !.defaultRunner = << <<"node">> >>,
                   !.enableLogging = <<TRUE>>]

\* { ...a, ...b }: the keys of b over those of a
SpreadConfig(a, b) ==
    [k \in DOMAIN a |-> IF b[k] # <<>> THEN b[k] ELSE a[k]]

\* the migration of extensionsDir in loadConfig, for { ...defaultConfig, ...userConfig }
migrate(merged) ==
    IF merged.extensionsDir # <<>> /\ merged.extensionsDir[1] # <<>> /\ merged.extensionsDirs = <<>>
    THEN [merged EXCEPT !.extensionsDirs = <<merged.extensionsDir>>, !.extensionsDir = <<>>]
    ELSE IF merged.extensionsDir # <<>> /\ merged.extensionsDir[1] # <<>>
              /\ merged.extensionsDirs # <<>>
    THEN [merged EXCEPT !.extensionsDir = <<>>]
    ELSE merged

\* loadConfig for a file: the defaults when it is missing or cannot be read
loadConfig(file) ==
    IF file.exists /\ file.content # <<>>
    THEN migrate(SpreadConfig(defaultConfig, file.content[1]))
    ELSE defaultConfig

getExtensionsDirs(cfg) ==
    IF cfg.extensionsDirs # <<>> THEN cfg.extensionsDirs[1] ELSE <<XDGExtensionsDir>>

getExtensionsDir(cfg) ==
    LET dirs == getExtensionsDirs(cfg)
    IN  IF dirs # <<>> /\ dirs[1] # <<>> THEN dirs[1] ELSE XDGExtensionsDir

getDefaultRunner(cfg) ==
    IF cfg.defaultRunner # <<>> /\ cfg.defaultRunner[1] # <<>> THEN cfg.defaultRunner[1]
    ELSE <<"node">>

isLoggingEnabled(cfg) ==
    IF cfg.enableLogging # <<>> THEN cfg.enableLogging[1] ELSE TRUE

\* what a config file or an update sets
ConfiguredDirs == {RootPath(0), RootPath(1)}
DirsValues == {<<>>} \cup {<<d>> : d \in ConfiguredDirs}
DirListValues == {<<>>, << <<RootPath(0)>> >>, << <<RootPath(1), RootPath(0)>> >>}
RunnerValues == {<<>>, << <<"python3">> >>, << <<"tsx">> >>}
LoggingValues == {<<>>, <<TRUE>>, <<FALSE>>}

PartialConfigs ==
    {[NoKeys EXCEPT !.extensionsDir = d, !.extensionsDirs = l, !.defaultRunner = r,
                    !.enableLogging = e] :
        d \in DirsValues, l \in DirListValues, r \in RunnerValues, e \in LoggingValues}

unchangedByConfig ==
    UNCHANGED <<fs, loaderVars, procVars, written, dispatch, report, loads>>

\* new ConfigManager()
NewConfigManager ==
    /\ config = <<>>
    /\ config' = <<loadConfig(configFile)>>
    /\ extensionsDirs' = getExtensionsDirs(config'[1])
    /\ UNCHANGED configFile
    /\ unchangedByConfig

\* updateConfig(updates), with saveConfig writing the file or failing with a warning
updateConfig(updates, saved) ==
    /\ config # <<>>
    /\ config' = <<SpreadConfig(config[1], updates)>>
    /\ extensionsDirs' = getExtensionsDirs(config'[1])
    /\ configFile' = IF saved THEN [exists |-> TRUE, content |-> config'] ELSE configFile
    /\ unchangedByConfig

\* the process ends; the next one makes a new ConfigManager
EndProcess ==
    /\ config # <<>>
    /\ config' = <<>>
    /\ UNCHANGED <<envVars, configFile>>
    /\ unchangedByConfig

\* no file, a file that cannot be read, or a file with some keys
ConfigFiles ==
    {NoFile, [exists |-> TRUE, content |-> <<>>]}
    \cup {[exists |-> TRUE, content |-> <<c>>] : c \in PartialConfigs}

InitConfig ==
    /\ fs = Dir(<<>>, <<>>)
    /\ extensionsDirs = <<>>
    /\ InitLoader
    /\ written = <<>>
    /\ report = <<>>
    /\ dispatch = <<>>
    /\ loads = NoLoads
    /\ config = <<>>
    /\ configFile \in ConfigFiles
    /\ binaryName = <<"rc">>
    /\ InitProcess

NextConfig ==
    \/ NewConfigManager
    \/ \E updates \in PartialConfigs, saved \in BOOLEAN : updateConfig(updates, saved)
    \/ EndProcess

SpecConfig == InitConfig /\ [][NextConfig]_vars

\* the getters give what the keys of a file or of an update set
givesConfigured(set, cfg) ==
    /\ set.extensionsDir # <<>> => getExtensionsDir(cfg) = set.extensionsDir[1]
    /\ set.defaultRunner # <<>> => getDefaultRunner(cfg) = set.defaultRunner[1]
    /\ set.enableLogging # <<>> => isLoggingEnabled(cfg) = set.enableLogging[1]

\* the getters of the keys an update does not set give what they gave before
keepsOthers(set, before, after) ==
    /\ (set.extensionsDir = <<>> /\ set.extensionsDirs = <<>>)
           => getExtensionsDir(after) = getExtensionsDir(before)
    /\ set.defaultRunner = <<>> => getDefaultRunner(after) = getDefaultRunner(before)
    /\ set.enableLogging = <<>> => isLoggingEnabled(after) = isLoggingEnabled(before)

\* C20: after construction from a config file that sets extensionsDir, defaultRunner
\* and enableLogging, and after an updateConfig with any of them, getExtensionsDir,
\* getDefaultRunner and isLoggingEnabled return the configured values, and the
\* getters of keys the update does not mention return what they did before.
C20_GettersReturnConfigured ==
    [][/\ (config = <<>> /\ config' # <<>> /\ configFile.exists /\ configFile.content # <<>>)
            => givesConfigured(configFile.content[1], config'[1])
       /\ \A updates \in PartialConfigs :
            (config # <<>> /\ config' = <<SpreadConfig(config[1], updates)>>)
                => /\ givesConfigured(updates, config'[1])
                   /\ keepsOthers(updates, config[1], config'[1])]_vars

----------------------------------------------------------------------------
(* Properties of aliases in the merge *)

\* an entry made for an alias of a script: the script's path under another command
isAliasEntry(s) ==
    /\ ~isDirectory(s.extension.scriptPath)
    /\ s.extension.command # ownCommand(s)

\* a root before the source's own claims the source's command
shadowed(s) ==
    \E t \in Range(extensionSourcesCache) :
        t.extension.command = s.extension.command /\ t.priority < s.priority

\* C21: a script that lost its own command path to a root of higher priority has
\* none of its aliases in the table and none in a conflict record.
C21_NoAliasOfShadowedScript ==
    cacheValid =>
        \A s \in Range(extensionSourcesCache) :
            (isOriginalScript(s) /\ shadowed(s)) =>
                /\ \A e \in Range(extensionsCache) :
                      e.scriptPath = s.extension.scriptPath => e.command = s.extension.command
                /\ \A k \in Range(conflictsCache) :
                      /\ k.primaryExtension.scriptPath = s.extension.scriptPath
                             => k.command = s.extension.command
                      /\ \A l \in Range(k.conflictingExtensions) :
                             l.scriptPath = s.extension.scriptPath
                                 => l.command = s.extension.command

\* C22: when a script file and an alias that another script of the same root
\* declares have the same command path, and no root before theirs claims it, the
\* table entry is the script file and the conflict record of the path lists the
\* alias entry as a loser, whichever of the two files is scanned first.
C22_RealFileBeatsAlias ==
    cacheValid =>
        \A s, t \in Range(extensionSourcesCache) :
            (/\ isOriginalScript(s)
             /\ isAliasEntry(t)
             /\ t.extension.command = s.extension.command
             /\ t.priority = s.priority
             /\ s.priority = minPriority(s.extension.command))
            => /\ \E e \in entriesOf(s.extension.command) :
                     e.scriptPath = s.extension.scriptPath
               /\ \E k \in conflictsOf(s.extension.command) :
                     conflicting(t) \in Range(k.conflictingExtensions)

----------------------------------------------------------------------------
(* Specification of the loader over scripts that declare the same alias *)

\* most bundles in a listing
MaxTwins == 3

TwinDoc == [NoDoc EXCEPT !.aliases = << <<"x">> >>]
ScriptZ == <<Script(<<"z", ".sh">>), Sidecar(<<"z", ".yaml">>, "yaml", TwinDoc)>>
PlainY == <<Script(<<"y", ".py">>)>>

\* x.sh; y.py with aliases x and "a b"; y.py with no sidecar; z.sh with alias x
TwinBundles ==
    { [key |-> "x", nodes |-> ScriptX],
      [key |-> "y", nodes |-> ScriptY],
      [key |-> "y", nodes |-> PlainY],
      [key |-> "z", nodes |-> ScriptZ] }

RECURSIVE TwinSeqs(_)
TwinSeqs(n) ==
    IF n = 0 THEN {<<>>}
    ELSE LET shorter == TwinSeqs(n - 1)
         IN  shorter \cup
             UNION { { Append(l, b) :
                         b \in {c \in TwinBundles : \A j \in 1..(n - 1) : l[j].key # c.key} } :
                     l \in {x \in shorter : Len(x) = n - 1} }

\* the bundles in every order, at the top of the root or in its namespace n
TwinListings ==
    { Flatten(l) : l \in TwinSeqs(MaxTwins) }
    \cup { <<Dir(<<"n">>, Flatten(l))>> : l \in TwinSeqs(MaxTwins) }

\* the second root: missing, or with one of the scripts
SecondListings == { <<>>, ScriptX, ScriptY }

InitTwins ==
    /\ \E first \in TwinListings, second \in SecondListings :
          /\ fs = Dir(<<>>, <<Dir(RootPath(0)[1], first)>>
                            \o (IF second = <<>> THEN <<>>
                                ELSE <<Dir(RootPath(1)[1], second)>>))
          /\ extensionsDirs = <<RootPath(0), RootPath(1)>>
    /\ InitLoader
    /\ InitShell
    /\ binaryName = <<"rc">>
    /\ InitProcess

SpecTwins == InitTwins /\ [][Next]_vars

\* sources i and j are alias entries of two scripts of one namespace of one root for
\* the same command, i is the first source of the command in its root, and no root
\* before theirs claims the command
twins(i, j) ==
    LET s == extensionSourcesCache[i]
        t == extensionSourcesCache[j]
    IN  /\ i < j
        /\ isAliasEntry(s) /\ isAliasEntry(t)
        /\ t.extension.command = s.extension.command
        /\ t.priority = s.priority
        /\ s.priority = minPriority(s.extension.command)
        /\ t.extension.scriptPath # s.extension.scriptPath
        /\ Front(t.extension.scriptPath) = Front(s.extension.scriptPath)
        /\ \A k \in 1..(i - 1) :
              extensionSourcesCache[k].extension.command = s.extension.command
                  => extensionSourcesCache[k].priority # s.priority

----------------------------------------------------------------------------
(* Properties of the argument vector *)

\* the tokens that are no global flag, in their order
withoutGlobalFlags(tokens) == SelectSeq(tokens, LAMBDA arg : arg # VERBOSE /\ arg # DEBUG)

\* C24: the child's argument vector is the script path followed by the tokens of
\* the command line, in their order, that are neither segments of the invoked
\* command path nor --verbose or --debug, wherever those flags are typed.
C24_ResidualArguments ==
    called =>
        spawned[1].args
            = <<pathStr(entry[1].scriptPath)>>
              \o withoutGlobalFlags(typed.before \o typedOptionTokens \o typed.rest)

----------------------------------------------------------------------------
(* Specification of the loader over sidecars and faulty entries *)

YamlDoc == [NoDoc EXCEPT !.description = <<"g">>]
JsonDoc == [NoDoc EXCEPT !.description = <<"j">>]

\* a sidecar of a format: none, one that parses, one that is malformed
SidecarsOf(stem, ext, parses, doc) ==
    { <<>>, <<Sidecar(stem \o <<ext>>, parses, doc)>>, <<Sidecar(stem \o <<ext>>, "none", NoDoc)>> }

\* the script x.sh or x.sh.sh with the sidecars named after its stem
SidecarBundles ==
    UNION { { <<Script(stem \o <<".sh">>)>> \o y \o j :
                y \in SidecarsOf(stem, ".yaml", "yaml", YamlDoc),
                j \in SidecarsOf(stem, ".json", "json", JsonDoc) } :
            stem \in { <<"x">>, <<"x", ".sh">> } }

\* with a dangling link listed before or after the script, or without one
WithDangling(bundle) ==
    { bundle, <<Dangling(<<"l">>)>> \o bundle, bundle \o <<Dangling(<<"l">>)>> }

\* at the top of the root, or in its directory d.sh
SidecarListings ==
    UNION { { l, <<Dir(<<"d", ".sh">>, l)>> } :
            l \in UNION { WithDangling(b) : b \in SidecarBundles } }

InitSidecar ==
    /\ \E first \in SidecarListings, second \in SecondListings :
          /\ fs = Dir(<<>>, <<Dir(RootPath(0)[1], first)>>
                            \o (IF second = <<>> THEN <<>>
                                ELSE <<Dir(RootPath(1)[1], second)>>))
          /\ extensionsDirs = <<RootPath(0), RootPath(1)>>
    /\ InitLoader
    /\ InitShell
    /\ binaryName = <<"rc">>
    /\ InitProcess

SpecSidecar == InitSidecar /\ [][Next]_vars

\* the path with the extension of its last component replaced
withExtension(path, ext) ==
    join(Front(path), getCommandName(basename(path)) \o <<ext>>)

\* C25: the sidecar candidates of a script are its path with the trailing extension
\* replaced by .yaml and by .json, in this order: files of the script's directory
\* with the script's stem, also when the extension occurs earlier in the path.
C25_CandidatesBesideScript ==
    cacheValid =>
        \A s \in Range(extensionSourcesCache) :
            ~isDirectory(s.extension.scriptPath) =>
                sidecarCandidates(s.extension.scriptPath)
                    = << withExtension(s.extension.scriptPath, ".yaml"),
                         withExtension(s.extension.scriptPath, ".json") >>

\* C26: when both sidecars of a script exist, its metadata is what the .yaml file
\* parses to, or none when that file is malformed; the .json file is not used.
C26_YamlAloneDecides ==
    cacheValid =>
        \A s \in Range(extensionSourcesCache) :
            LET cands == sidecarCandidates(s.extension.scriptPath)
            IN  (existsSync(cands[1]) /\ existsSync(cands[2]))
                    => s.extension.config = parseCandidate(cands[1])

\* the script files below dir
RECURSIVE scriptsBelow(_)
scriptsBelow(dir) ==
    LET items == readdirSync(dir)
        paths == {join(dir, items[i].name) : i \in 1..Len(items)}
    IN  {p \in paths : Lookup(fs, p).kind = "file" /\ isExecutableFile(basename(p))}
        \cup UNION {scriptsBelow(p) : p \in {q \in paths : isDirectory(q)}}

\* C27: a missing root, a malformed sidecar or an unreadable entry takes nothing
\* but itself out of the result: a missing root has no sources, every script file
\* of a root that exists has its source and its table entry, and a script whose
\* only sidecar is malformed has no metadata.
C27_FaultsIsolated ==
    cacheValid =>
        \A k \in 1..Len(extensionsDirs) :
            IF ~existsSync(extensionsDirs[k])
            THEN \A s \in Range(extensionSourcesCache) : s.priority # k - 1
            ELSE \A p \in scriptsBelow(extensionsDirs[k]) :
                    /\ \E s \in Range(extensionSourcesCache) :
                          /\ s.priority = k - 1
                          /\ s.extension.scriptPath = p
                          /\ \E e \in Range(extensionsCache) : e.command = s.extension.command
                          /\ LET cands == sidecarCandidates(p)
                             IN  (/\ parseCandidate(cands[1]) = <<>>
                                  /\ ~existsSync(cands[2]))
                                     => s.extension.config = <<>>

----------------------------------------------------------------------------
(* Properties of the table after it was returned *)

\* C28: no operation of rc changes the list that loadExtensions returned: while the
\* cache stays valid, every step leaves the entries and their order as they were.
C28_TableReadOnly ==
    [][(cacheValid /\ cacheValid') => (extensionsCache' = extensionsCache)]_vars

\* C29: rc alias creates a symlink or a wrapper only when the joined arguments are
\* the command of a table entry or the path of a namespace that exists; for every
\* other input it creates nothing and exits with a non-zero status.
C29_AliasOnlyForWhatResolves ==
    [][(pc = "ready" /\ pc' = "exited" /\ argv' # <<>> /\ argv'[1] = <<"alias">>
           /\ entriesOf(Join(Tail(argv'))) = {}
           /\ ~isNamespace(Tail(argv')))
       => (exitStatus' \notin {<<>>, <<0>>} /\ written' = written /\ fs' = fs)]_vars

----------------------------------------------------------------------------
(* ExtensionLoader: loadExtensions() calls that overlap *)

MaxCalls == 3
MaxInvalidations == 2

\* the loop of loadExtensions from (0-based) index i on: the first root that is not an
\* empty string, which is the next one whose discoverExtensions is awaited
RECURSIVE nextRoot(_)
nextRoot(i) ==
    IF i >= Len(extensionsDirs) THEN i
    ELSE IF extensionsDirs[i + 1] = <<>> THEN nextRoot(i + 1) ELSE i

\* what root i adds to allExtensionSources
rootSources(i) ==
    withSource(discoverExtensions(extensionsDirs[i + 1], <<>>), extensionsDirs[i + 1], i)

\* a call suspended at `await this.discoverExtensions(dir)` for root i
awaiting(i, sources, began) ==
    [state |-> "awaiting", root |-> i, sources |-> sources, began |-> began,
     table |-> <<>>, scan |-> 0]

\* a call that returned the table of the scan that began at time scan
returned(sources, began, table, scan) ==
    [state |-> "returned", root |-> Len(extensionsDirs), sources |-> sources, began |-> began,
     table |-> table, scan |-> scan]

\* lines 46-53 for call number k, which began at time began: merge, fill the three
\* caches, set cacheValid, return the table; no await in between
fillCaches(k, sources, began, calls, now) ==
    LET merged == mergeExtensionsWithConflicts(sources)
    IN  /\ extensionsCache' = merged.mergedExtensions
        /\ extensionSourcesCache' = sources
        /\ conflictsCache' = merged.conflicts
        /\ cacheValid' = TRUE
        /\ loads' = [loads EXCEPT
                        !.clock = now,
                        !.cacheScan = began,
                        !.calls = [calls EXCEPT ![k] = returned(sources, began,
                                                                 merged.mergedExtensions,
                                                                 began)]]

\* loadExtensions() is called: up to its first await, or to its return when the
\* cache is valid or no root is scanned
BeginLoad ==
    /\ Len(loads.calls) < MaxCalls
    /\ LET now == loads.clock + 1
           k == Len(loads.calls) + 1
           first == nextRoot(0)
       IN  IF cacheValid
           THEN /\ loads' = [loads EXCEPT
                                !.clock = now,
                                !.calls = Append(@, returned(<<>>, now, extensionsCache,
                                                             loads.cacheScan))]
                /\ UNCHANGED loaderVars
           ELSE IF first >= Len(extensionsDirs)
           THEN fillCaches(k, <<>>, now, Append(loads.calls, awaiting(first, <<>>, now)), now)
           ELSE /\ loads' = [loads EXCEPT
                                !.clock = now,
                                !.calls = Append(@, awaiting(first, rootSources(first), now))]
                /\ UNCHANGED loaderVars
    /\ UNCHANGED <<envVars, procVars, written, dispatch, report, configVars>>

\* the awaited discoverExtensions of call k is settled and the call runs on: to the
\* await for the next root, or through the merge to its return
ResumeLoad(k) ==
    /\ k \in 1..Len(loads.calls)
    /\ loads.calls[k].state = "awaiting"
    /\ LET c == loads.calls[k]
           next == nextRoot(c.root + 1)
       IN  IF next < Len(extensionsDirs)
           THEN /\ loads' = [loads EXCEPT
                                !.calls[k] = awaiting(next, c.sources \o rootSources(next),
                                                      c.began)]
                /\ UNCHANGED loaderVars
           ELSE fillCaches(k, c.sources, c.began, loads.calls, loads.clock)
    /\ UNCHANGED <<envVars, procVars, written, dispatch, report, configVars>>

\* invalidateCache() is called between two steps of the calls
InvalidateBetween ==
    /\ Cardinality(loads.invalidated) < MaxInvalidations
    /\ invalidateCache
    /\ loads' = [loads EXCEPT
                    !.clock = @ + 1,
                    !.invalidated = @ \cup {loads.clock + 1},
                    !.cacheScan = 0]
    /\ UNCHANGED <<envVars, procVars, written, dispatch, report, configVars>>

NextAsync ==
    \/ BeginLoad
    \/ \E k \in 1..MaxCalls : ResumeLoad(k)
    \/ InvalidateBetween

SpecAsync == Init /\ [][NextAsync]_vars

\* C30: a loadExtensions call that starts after invalidateCache has returned never
\* returns a table of a scan that began before that invalidation, and the three caches
\* always stem from one scan: the extensions and conflicts caches are the merge of the
\* sources cache.
C30_NoTableFromBeforeInvalidation ==
    /\ \A k \in 1..Len(loads.calls) :
          LET c == loads.calls[k]
          IN  c.state = "returned"
              => \A t \in loads.invalidated : t < c.began => c.scan > t
    /\ LET merged == mergeExtensionsWithConflicts(extensionSourcesCache)
       IN  /\ extensionsCache = merged.mergedExtensions
           /\ conflictsCache = merged.conflicts

============================================================================
